---- MODULE Spec2Model ----
(***************************************************************************)
(* A model of the path-indexed perceptron branch predictor PerceptronBP    *)
(* (src/perceptron.hh, src/perceptron.cc): the history store, the two      *)
(* weight tables, the per-branch BPHistory snapshots and the four          *)
(* operations lookup, updateHistories, update and squash.                  *)
(*                                                                         *)
(* C++ vectors are indexed from 0, TLA+ sequences from 1: pathTable[t][j-1]*)
(* of the source is pathTable[t][j] here.  Weight rows are functions over  *)
(* 0..history_length and 0..branchAddrBits, as in the source.              *)
(***************************************************************************)
EXTENDS Integers, Sequences, FiniteSets, TLC

(***************************************************************************)
(* Bounds of the model.                                                    *)
(***************************************************************************)
\* caller-side handle variables (branches in flight at once) in Spec
MaxHandles == 2
\* addresses above the bucket range that the caller may present (aliasing)
ExtraPC == 1
\* trainings that may fire in one behaviour of Spec
MaxTrain == 1
\* trainings that may fire in one behaviour of SpecTrain
MaxTrainT == 2
\* snapshots a behaviour may leave without an owner
MaxLeaks == 1
\* advances recorded per thread in SpecAdv
MaxLog == 4
\* trainings that may fire in one behaviour of SpecSat
MaxTrainSat == 14
\* branches in flight at once in SpecNest
MaxNest == 4

(***************************************************************************)
(* Program constant: the training threshold of update.                     *)
(***************************************************************************)
Theta == 64

\* width in bits of Addr, the type makeMask computes in
AddrBits == 64

\* width in bits of unsigned, the type of the three mask members
UnsignedBits == 32

(***************************************************************************)
(* Constructor parameters the model is run with.                           *)
(***************************************************************************)
Params(g, l, a, n) ==
    [globalHistoryBits |-> g, localHistoryBits |-> l, branchAddrBits |-> a, numThreads |-> n]

\* Spec: every call, two branches in flight; global history only, and local
\* history only
Configs == {Params(1, 0, 1, 1), Params(0, 1, 1, 1)}
\* SpecHist: global and local history on two threads; and more address bits
\* than history bits
ConfigsHist == {Params(1, 1, 1, 2), Params(1, 0, 2, 1)}
\* SpecTrain: global and local history; and more address bits than history bits
ConfigsTrain == {Params(1, 1, 1, 1), Params(1, 0, 2, 1)}
\* SpecAdv: the end-to-end scenario of the specification; and global and
\* local history of one bit
ConfigsAdv == {Params(4, 0, 2, 1), Params(1, 1, 1, 1)}
\* SpecSat: global and local history
ConfigsSat == {Params(1, 1, 1, 1)}

VARIABLES
    params,              \* the PerceptronBPParams the predictor was constructed with
    globalHistoryReg,    \* [thread -> unsigned]
    branchHistoryTable,  \* [bucket -> int]
    pathTable,           \* [thread -> sequence of buckets], front first
    historyWeightTable,  \* [bucket -> [0..history_length -> int]]
    addrWeightTable,     \* [bucket -> [0..branchAddrBits -> int]]
    bp_history,          \* [handle -> BPHistory or nullptr]: the callers' void* variables
    heap,                \* number of BPHistory objects made by new and not yet deleted
    branch,              \* [handle -> the caller's record of the branch: tid, pc, advanced]
    op,                  \* the last call made; for lookup its arguments, score and result
    ghost,               \* [handle -> history values remembered for the rollback claims]
    lastAdv,             \* [thread -> the branch advanced last, if no call changed the thread's histories since]
    advLog,              \* [thread -> sequence of <<bucket, taken>> advanced since construction]
    note,                \* which case of the last call happened (a set of words)
    nTrain               \* number of trainings that fired

vars == <<params, globalHistoryReg, branchHistoryTable, pathTable,
          historyWeightTable, addrWeightTable, bp_history, heap,
          branch, op, ghost, lastAdv, advLog, note, nTrain>>

(***************************************************************************)
(* Arithmetic on bit patterns.                                             *)
(***************************************************************************)
Pow2(n) == 2 ^ n

Max(a, b) == IF a >= b THEN a ELSE b

\* bit i of x, 0 = least significant: (x >> i) & 1
Bit(x, i) == (x \div Pow2(i)) % 2

\* x & m for non-negative x and m
RECURSIVE BitAnd(_, _)
BitAnd(x, m) ==
    IF x = 0 \/ m = 0 THEN 0
    ELSE (x % 2) * (m % 2) + 2 * BitAnd(x \div 2, m \div 2)

\* x | m for non-negative x and m
RECURSIVE BitOr(_, _)
BitOr(x, m) ==
    IF x = 0 THEN m
    ELSE IF m = 0 THEN x
    ELSE Max(x % 2, m % 2) + 2 * BitOr(x \div 2, m \div 2)

\* the value whose n low-order bits are set and no other
LowOnes(n) == Pow2(n) - 1

\* the lambda makeMask without its guard for widths from AddrBits on: the
\* shift count is taken modulo AddrBits
makeMask_unguarded(bits) == bits % AddrBits

\* the lambda makeMask of the constructor.  Every Addr it returns has its n
\* low-order bits set and no other (0, ~Addr(0) or (Addr(1) << bits) - 1);
\* makeMask is that n
makeMask(bits) ==
    IF bits = 0 THEN 0
    ELSE IF bits >= AddrBits THEN AddrBits
    ELSE bits

\* the conversion of the Addr that makeMask returns to the unsigned member
\* that stores it: the low UnsignedBits bits are kept
ToUnsigned(ones) == IF ones > UnsignedBits THEN UnsignedBits ELSE ones

(***************************************************************************)
(* Members set by the constructor's initializer list and body.             *)
(***************************************************************************)
globalHistoryBits == params.globalHistoryBits
localHistoryBits == params.localHistoryBits
branchAddrBits == params.branchAddrBits
history_length == globalHistoryBits + localHistoryBits
\* the number of low-order bits set in each mask, and the masks
globalHistoryMaskBits == ToUnsigned(makeMask(globalHistoryBits))
localMaskBits == ToUnsigned(makeMask(localHistoryBits))
pcMaskBits == ToUnsigned(makeMask(branchAddrBits))
globalHistoryMask == LowOnes(globalHistoryMaskBits)
localMask == LowOnes(localMaskBits)
pcMask == LowOnes(pcMaskBits)
PT_LEN == Max(branchAddrBits, history_length)

Threads == 0 .. (params.numThreads - 1)
Buckets == 0 .. (Pow2(branchAddrBits) - 1)
\* addresses the caller presents: every bucket, and ExtraPC addresses above them
Addrs == 0 .. (Pow2(branchAddrBits) - 1 + ExtraPC)

Handles == 1 .. Max(Max(MaxHandles, MaxLog), MaxNest)

nullptr == [isNull |-> TRUE]
\* BPHistory::branchAddr before updateHistories assigns it (never read then)
Unset == -1
NoBranch == [tid |-> -1, pc |-> -1, advanced |-> FALSE]
NoGhost == [cleanT |-> FALSE, cleanL |-> FALSE, pre |-> <<>>, prev |-> 0, expect |-> <<>>]
NoAdv == [h |-> 0, post |-> <<>>]
\* the record of a call that returns nothing
Called(name) == [name |-> name, tid |-> -1, pc |-> -1, y |-> 0, ret |-> FALSE]

\* struct BPHistory
BPHistory(g, addr, l, p, npc, repl, y) ==
    [globalHistoryReg |-> g, branchAddr |-> addr, local |-> l, path |-> p,
     new_pc |-> npc, branchAddrReplaced |-> repl, last_y |-> y]

(***************************************************************************)
(* The constructor.                                                        *)
(***************************************************************************)
Construct(cfgs) ==
    /\ params \in cfgs
    /\ globalHistoryReg = [t \in Threads |-> 0]
    /\ branchHistoryTable = [b \in Buckets |-> 0]
    /\ pathTable = [t \in Threads |-> [i \in 1 .. PT_LEN |-> 0]]
    /\ historyWeightTable = [b \in Buckets |-> [j \in 0 .. history_length |-> 0]]
    /\ addrWeightTable = [b \in Buckets |-> [j \in 0 .. branchAddrBits |-> 0]]
    /\ bp_history = [h \in Handles |-> nullptr]
    /\ heap = 0
    /\ branch = [h \in Handles |-> NoBranch]
    /\ op = Called("constructor")
    /\ ghost = [h \in Handles |-> NoGhost]
    /\ lastAdv = [t \in Threads |-> NoAdv]
    /\ advLog = [t \in Threads |-> <<>>]
    /\ note = {}
    /\ nTrain = 0

Init == Construct(Configs)

(***************************************************************************)
(* lookup: the two dot products, the snapshot and the returned direction.  *)
(***************************************************************************)
\* the loop of lines 59-66, from step j with running sum y
RECURSIVE lookup_hist_loop(_, _, _, _)
lookup_hist_loop(tid, history_reg, j, y) ==
    IF j > history_length THEN y
    ELSE LET k == pathTable[tid][j]
             bit_j == Bit(history_reg, j - 1)
         IN  lookup_hist_loop(tid, history_reg, j + 1,
                 IF bit_j = 1 THEN y + historyWeightTable[k][j]
                              ELSE y - historyWeightTable[k][j])

\* the address loop reading the branch's own row instead of the path's
RECURSIVE lookup_addr_loop_own_row(_, _, _, _)
lookup_addr_loop_own_row(tid, new_pc, j, y) ==
    IF j > branchAddrBits THEN y
    ELSE lookup_addr_loop_own_row(tid, new_pc, j + 1,
             IF Bit(new_pc, j - 1) = 1 THEN y + addrWeightTable[new_pc][j]
                                       ELSE y - addrWeightTable[new_pc][j])

\* the loop of lines 70-77, from step j with running sum y
RECURSIVE lookup_addr_loop(_, _, _, _)
lookup_addr_loop(tid, new_pc, j, y) ==
    IF j > branchAddrBits THEN y
    ELSE LET k == pathTable[tid][j]
             bit_j == Bit(new_pc, j - 1)
         IN  lookup_addr_loop(tid, new_pc, j + 1,
                 IF bit_j = 1 THEN y + addrWeightTable[k][j]
                              ELSE y - addrWeightTable[k][j])

\* the value of y at line 79
lookup_y(tid, pc) ==
    LET new_pc == BitAnd(pc, pcMask)
        global == BitAnd(globalHistoryReg[tid], globalHistoryMask)
        local == BitAnd(branchHistoryTable[new_pc], localMask)
        history_reg == BitOr(global * Pow2(localHistoryBits), local)
        y_hist == lookup_hist_loop(tid, history_reg, 1, historyWeightTable[new_pc][0])
        y_addr == lookup_addr_loop(tid, new_pc, 1, addrWeightTable[new_pc][0])
    IN  y_addr + y_hist

\* the BPHistory built at lines 82-88
lookup_history(tid, pc, y) ==
    LET new_pc == BitAnd(pc, pcMask)
    IN  BPHistory(globalHistoryReg[tid], Unset,
                  BitAnd(branchHistoryTable[new_pc], localMask),
                  pathTable[tid], new_pc, FALSE, y)

\* the value returned at line 91
lookup_return(y) == y >= 0

\* lookup shifting its own prediction into the global history
lookup_speculating(tid, pc, h) ==
    LET y == lookup_y(tid, pc)
    IN  /\ bp_history' = [bp_history EXCEPT ![h] = lookup_history(tid, pc, y)]
        /\ heap' = heap + 1
        /\ op' = [name |-> "lookup", tid |-> tid, pc |-> pc, y |-> y,
                  ret |-> lookup_return(y)]
        /\ globalHistoryReg' = [globalHistoryReg EXCEPT
              ![tid] = BitAnd(BitOr(@ * 2, IF y >= 0 THEN 1 ELSE 0), globalHistoryMask)]
        /\ UNCHANGED <<params, branchHistoryTable, pathTable,
                       historyWeightTable, addrWeightTable>>

lookup(tid, pc, h) ==
    LET y == lookup_y(tid, pc)
    IN  /\ bp_history' = [bp_history EXCEPT ![h] = lookup_history(tid, pc, y)]
        /\ heap' = heap + 1
        /\ op' = [name |-> "lookup", tid |-> tid, pc |-> pc, y |-> y,
                  ret |-> lookup_return(y)]
        /\ UNCHANGED <<params, globalHistoryReg, branchHistoryTable, pathTable,
                       historyWeightTable, addrWeightTable>>

(***************************************************************************)
(* update: training from the snapshot, and disposal.                       *)
(***************************************************************************)
\* update training whatever the recorded score
update_trains_always(history, squashed) == TRUE

\* the condition of line 103
update_trains(history, squashed) ==
    squashed \/ (history.last_y <= Theta /\ history.last_y >= -Theta)

\* a step of two
Step_by_two(table, k, j, up) ==
    [table EXCEPT ![k][j] = IF up THEN @ + 2 ELSE @ - 2]

\* ++w or --w of one table entry
Step(table, k, j, up) ==
    [table EXCEPT ![k][j] = IF up THEN @ + 1 ELSE @ - 1]

\* the loop of lines 116-124 on table hw, from step j
RECURSIVE update_hist_loop(_, _, _, _, _)
update_hist_loop(hw, history, history_reg, taken, j) ==
    IF j > history_length THEN hw
    ELSE LET k == history.path[j]
             bit_j == Bit(history_reg, j - 1) = 1
         IN  update_hist_loop(Step(hw, k, j, taken = bit_j),
                              history, history_reg, taken, j + 1)

\* the loop of lines 129-133 on table aw, from step j
RECURSIVE update_addr_loop(_, _, _, _, _)
update_addr_loop(aw, history, new_pc, taken, j) ==
    IF j > branchAddrBits THEN aw
    ELSE LET k == history.path[j]
         IN  update_addr_loop(Step(aw, k, j, taken = (Bit(new_pc, j - 1) # 0)),
                              history, new_pc, taken, j + 1)

\* update reading the live local history register instead of the snapshot's
update_historyWeightTable_live_local(history, new_pc, taken) ==
    LET global == BitAnd(history.globalHistoryReg, globalHistoryMask)
        local == BitAnd(branchHistoryTable[new_pc], localMask)
        history_reg == BitOr(global * Pow2(localHistoryBits), local)
    IN  update_hist_loop(Step(historyWeightTable, new_pc, 0, taken),
                         history, history_reg, taken, 1)

\* historyWeightTable after lines 104-124
update_historyWeightTable(history, new_pc, taken) ==
    LET global == BitAnd(history.globalHistoryReg, globalHistoryMask)
        local == history.local
        history_reg == BitOr(global * Pow2(localHistoryBits), local)
    IN  update_hist_loop(Step(historyWeightTable, new_pc, 0, taken),
                         history, history_reg, taken, 1)

\* update training only the bias of the address weights
update_addrWeightTable_bias_only(history, new_pc, taken) ==
    Step(addrWeightTable, new_pc, 0, taken)

\* addrWeightTable after lines 126-133
update_addrWeightTable(history, new_pc, taken) ==
    update_addr_loop(Step(addrWeightTable, new_pc, 0, taken), history, new_pc, taken, 1)

\* update disposing of the snapshot of a squashed branch too
update_dispose_always(h, squashed) ==
    [bp_history EXCEPT ![h] = nullptr]

\* bp_history after lines 137-140
update_dispose(h, squashed) ==
    IF ~squashed THEN [bp_history EXCEPT ![h] = nullptr] ELSE bp_history

update(tid, pc, taken, h, squashed) ==
    /\ bp_history[h] # nullptr
    /\ LET history == bp_history[h]
           new_pc == BitAnd(pc, pcMask)
           trains == update_trains(history, squashed)
       IN  /\ historyWeightTable' =
                 IF trains THEN update_historyWeightTable(history, new_pc, taken)
                           ELSE historyWeightTable
           /\ addrWeightTable' =
                 IF trains THEN update_addrWeightTable(history, new_pc, taken)
                           ELSE addrWeightTable
           /\ bp_history' = update_dispose(h, squashed)
           /\ heap' = IF bp_history'[h] = nullptr THEN heap - 1 ELSE heap
           /\ op' = Called("update")
           /\ UNCHANGED <<params, globalHistoryReg, branchHistoryTable, pathTable>>

(***************************************************************************)
(* updateHistories: the speculative advance of the histories.              *)
(***************************************************************************)
\* the shift without the mask
shift_in_unmasked(reg, taken, mask) ==
    BitOr(reg * 2, IF taken THEN 1 ELSE 0)

\* ((reg << 1) | (taken ? 1 : 0)) & mask, lines 166 and 169
shift_in(reg, taken, mask) ==
    BitAnd(BitOr(reg * 2, IF taken THEN 1 ELSE 0), mask)

\* the BPHistory built at lines 153-159
uncond_history(tid, new_pc) ==
    BPHistory(globalHistoryReg[tid], Unset,
              BitAnd(branchHistoryTable[new_pc], localMask),
              pathTable[tid], new_pc, FALSE, 0)

\* updateHistories recording the front of the queue as the evicted address
evict_record_front(history, pt) ==
    IF Len(pt) = PT_LEN
    THEN [history EXCEPT !.branchAddr = pt[1], !.branchAddrReplaced = TRUE]
    ELSE history

\* the snapshot after lines 174-178
evict_record(history, pt) ==
    IF Len(pt) = PT_LEN
    THEN [history EXCEPT !.branchAddr = pt[Len(pt)], !.branchAddrReplaced = TRUE]
    ELSE history

\* the push made at the back of the queue, dropping the front
path_push_at_back(pt, new_pc) ==
    (IF Len(pt) = PT_LEN THEN Tail(pt) ELSE pt) \o <<new_pc>>

\* the push that drops no entry of a full queue
path_push_keep_back(pt, new_pc) ==
    <<new_pc>> \o pt

\* the path queue after lines 174-179
path_push(pt, new_pc) ==
    <<new_pc>> \o (IF Len(pt) = PT_LEN THEN SubSeq(pt, 1, Len(pt) - 1) ELSE pt)

\* updateHistories shifting the outcome into every thread's global register
updateHistories_all_threads(tid, pc, uncond, taken, h) ==
    /\ uncond \/ bp_history[h] # nullptr
    /\ LET new_pc == BitAnd(pc, pcMask)
           history == IF uncond THEN uncond_history(tid, new_pc) ELSE bp_history[h]
       IN  /\ globalHistoryReg' = [t \in Threads |->
                 shift_in(globalHistoryReg[t], taken, globalHistoryMask)]
           /\ branchHistoryTable' = [branchHistoryTable EXCEPT
                 ![new_pc] = shift_in(@, taken, localMask)]
           /\ heap' = IF uncond THEN heap + 1 ELSE heap
           /\ bp_history' = [bp_history EXCEPT ![h] = evict_record(history, pathTable[tid])]
           /\ pathTable' = [pathTable EXCEPT ![tid] = path_push(@, new_pc)]
           /\ op' = Called("updateHistories")
           /\ UNCHANGED <<params, historyWeightTable, addrWeightTable>>

updateHistories(tid, pc, uncond, taken, h) ==
    /\ uncond \/ bp_history[h] # nullptr
    /\ LET new_pc == BitAnd(pc, pcMask)
           history == IF uncond THEN uncond_history(tid, new_pc) ELSE bp_history[h]
       IN  /\ globalHistoryReg' = [globalHistoryReg EXCEPT
                 ![tid] = shift_in(@, taken, globalHistoryMask)]
           /\ branchHistoryTable' = [branchHistoryTable EXCEPT
                 ![new_pc] = shift_in(@, taken, localMask)]
           /\ heap' = IF uncond THEN heap + 1 ELSE heap
           /\ bp_history' = [bp_history EXCEPT ![h] = evict_record(history, pathTable[tid])]
           /\ pathTable' = [pathTable EXCEPT ![tid] = path_push(@, new_pc)]
           /\ op' = Called("updateHistories")
           /\ UNCHANGED <<params, historyWeightTable, addrWeightTable>>

(***************************************************************************)
(* squash: the rollback of the histories.                                  *)
(***************************************************************************)
\* squash without the push_back of the evicted address
path_restore_no_push_back(pt, history) ==
    IF pt # <<>> THEN Tail(pt) ELSE pt

\* the path queue after lines 189-193
path_restore(pt, history) ==
    LET popped == IF pt # <<>> THEN Tail(pt) ELSE pt
    IN  IF history.branchAddrReplaced THEN Append(popped, history.branchAddr) ELSE popped

\* squash undoing the shift of the global history instead of restoring it
squash_shift_back(tid, h) ==
    /\ bp_history[h] # nullptr
    /\ LET history == bp_history[h]
       IN  /\ globalHistoryReg' = [globalHistoryReg EXCEPT ![tid] = @ \div 2]
           /\ branchHistoryTable' = [branchHistoryTable EXCEPT
                 ![history.new_pc] = history.local]
           /\ pathTable' = [pathTable EXCEPT ![tid] = path_restore(@, history)]
           /\ bp_history' = [bp_history EXCEPT ![h] = nullptr]
           /\ heap' = heap - 1
           /\ op' = Called("squash")
           /\ UNCHANGED <<params, historyWeightTable, addrWeightTable>>

squash(tid, h) ==
    /\ bp_history[h] # nullptr
    /\ LET history == bp_history[h]
       IN  /\ globalHistoryReg' = [globalHistoryReg EXCEPT ![tid] = history.globalHistoryReg]
           /\ branchHistoryTable' = [branchHistoryTable EXCEPT
                 ![history.new_pc] = history.local]
           /\ pathTable' = [pathTable EXCEPT ![tid] = path_restore(@, history)]
           /\ bp_history' = [bp_history EXCEPT ![h] = nullptr]
           /\ heap' = heap - 1
           /\ op' = Called("squash")
           /\ UNCHANGED <<params, historyWeightTable, addrWeightTable>>

(***************************************************************************)
(* update and squash called with a null bp_history.  update checks the     *)
(* handle with assert only, which a build without assertions drops; squash *)
(* does not check it.  The read through the null pointer then either traps *)
(* or yields unspecified field values with which the call carries on.      *)
(***************************************************************************)
\* the field values a read through the null pointer can yield
Unspecified ==
    {BPHistory(g, b, l, [i \in 1 .. PT_LEN |-> b], b, r, 0) :
        g \in 0 .. globalHistoryMask, l \in 0 .. localMask, b \in Buckets, r \in BOOLEAN}

\* the process is gone: by the failed assert, or by the trap
Stopped(how) ==
    /\ op' = Called(how)
    /\ UNCHANGED <<params, globalHistoryReg, branchHistoryTable, pathTable,
                   historyWeightTable, addrWeightTable, bp_history, heap>>

\* update, lines 98-140, with bp_history null
update_null(tid, pc, taken, h, squashed) ==
    /\ bp_history[h] = nullptr
    /\ \/ Stopped("assert")
       \/ Stopped("fault")
       \/ \E history \in Unspecified :
             LET new_pc == BitAnd(pc, pcMask)
                 trains == update_trains(history, squashed)
             IN  /\ historyWeightTable' =
                       IF trains THEN update_historyWeightTable(history, new_pc, taken)
                                 ELSE historyWeightTable
                 /\ addrWeightTable' =
                       IF trains THEN update_addrWeightTable(history, new_pc, taken)
                                 ELSE addrWeightTable
                 /\ op' = Called("update")
                 /\ UNCHANGED <<params, globalHistoryReg, branchHistoryTable, pathTable,
                                bp_history, heap>>

\* squash, lines 184-196, with bp_history null
squash_null(tid, h) ==
    /\ bp_history[h] = nullptr
    /\ \/ Stopped("fault")
       \/ \E history \in Unspecified :
             /\ globalHistoryReg' = [globalHistoryReg EXCEPT ![tid] = history.globalHistoryReg]
             /\ branchHistoryTable' = [branchHistoryTable EXCEPT
                   ![history.new_pc] = history.local]
             /\ pathTable' = [pathTable EXCEPT ![tid] = path_restore(@, history)]
             /\ op' = Called("squash")
             /\ UNCHANGED <<params, historyWeightTable, addrWeightTable, bp_history, heap>>

(***************************************************************************)
(* The callers.  Each handle h is one branch of the surrounding pipeline:   *)
(* its thread, its address and its void* bp_history.  The pipeline passes  *)
(* a branch's own thread and address to every call about it, calls         *)
(* updateHistories once per branch, and squashes only branches whose       *)
(* histories were advanced.  The order of the calls is otherwise free:     *)
(* several branches are in flight, and they are trained and squashed in    *)
(* any order.                                                              *)
(*                                                                         *)
(* ghost and lastAdv remember, for the rollback claims, what the histories *)
(* were around each advance.  For the branch of handle h on thread t:      *)
(*   cleanT  no other call changed thread t's histories since the          *)
(*           snapshot of h was made                                        *)
(*   cleanL  the same for the local history of the snapshot's bucket       *)
(*   pre     globalHistoryReg[t], branchHistoryTable and pathTable[t] just *)
(*           before the advance of h (kept while cleanT and cleanL)        *)
(*   prev    the branch A that was advanced on t immediately before the    *)
(*           snapshot of h was made, 0 if there is none                    *)
(*   expect  globalHistoryReg[t] and pathTable[t] just after the advance   *)
(*           of A (prev and expect are kept while cleanT)                  *)
(***************************************************************************)
live(h) == bp_history[h] # nullptr

Flag(c, word) == IF c THEN {word} ELSE {}

\* the BPHistory objects on the heap that no handle points to
leaks == heap - Cardinality({h \in Handles : live(h)})

\* the caller's lowest unused handle variable among 1..n
FreeSlot(h, n) ==
    /\ h \in 1 .. n
    /\ ~live(h)
    /\ \A g \in 1 .. (h - 1) : live(g)

NewGhost(t) ==
    [cleanT |-> TRUE, cleanL |-> TRUE, pre |-> <<>>,
     prev |-> lastAdv[t].h, expect |-> lastAdv[t].post]

\* the ghost of a live branch after another call changed thread t and bucket b
Touched(g, t, b) ==
    LET ct == ghost[g].cleanT /\ branch[g].tid # t
        cl == ghost[g].cleanL /\ bp_history[g].new_pc # b
    IN  [cleanT |-> ct, cleanL |-> cl,
         pre |-> IF ct /\ cl THEN ghost[g].pre ELSE <<>>,
         prev |-> IF ct THEN ghost[g].prev ELSE 0,
         expect |-> IF ct THEN ghost[g].expect ELSE <<>>]

Predict(t, pc, n) ==
    \E h \in Handles :
        /\ FreeSlot(h, n)
        /\ lookup(t, pc, h)
        /\ branch' = [branch EXCEPT ![h] = [tid |-> t, pc |-> pc, advanced |-> FALSE]]
        /\ ghost' = [ghost EXCEPT ![h] = NewGhost(t)]
        /\ note' = Flag(op.name = "lookup" /\ op.tid = t /\ op.pc = pc, "again")
        /\ UNCHANGED <<lastAdv, advLog, nTrain>>

\* what is remembered when handle h advances thread t at bucket new_pc;
\* made says that the call made the snapshot itself
GhostAdvance(h, t, new_pc, made) ==
    LET mine == IF made THEN NewGhost(t) ELSE ghost[h]
    IN  [g \in Handles |->
            IF g = h
            THEN [mine EXCEPT
                    !.pre = IF mine.cleanT /\ mine.cleanL
                            THEN <<globalHistoryReg[t], branchHistoryTable, pathTable[t]>>
                            ELSE <<>>]
            ELSE IF live(g) THEN Touched(g, t, new_pc)
            ELSE ghost[g]]

Logged(t, new_pc, taken, logged) ==
    IF logged
    THEN /\ Len(advLog[t]) < MaxLog
         /\ advLog' = [advLog EXCEPT ![t] = Append(@, <<new_pc, taken>>)]
    ELSE advLog' = advLog

\* updateHistories for a branch that lookup made a snapshot for; called with
\* uncond, it leaves that snapshot without an owner, at most cap times
Advance(h, uncond, taken, logged, cap) ==
    /\ live(h)
    /\ ~branch[h].advanced
    /\ uncond => leaks < cap
    /\ LET t == branch[h].tid
           new_pc == BitAnd(branch[h].pc, pcMask)
       IN  /\ updateHistories(t, branch[h].pc, uncond, taken, h)
           /\ branch' = [branch EXCEPT ![h].advanced = TRUE]
           /\ ghost' = GhostAdvance(h, t, new_pc, uncond)
           /\ note' = Flag(uncond, "uncond") \cup Flag(taken, "taken")
           /\ lastAdv' = [lastAdv EXCEPT
                 ![t] = [h |-> h, post |-> <<globalHistoryReg'[t], pathTable'[t]>>]]
           /\ Logged(t, new_pc, taken, logged)
           /\ UNCHANGED nTrain

\* updateHistories for an unconditional branch, which has no snapshot yet
AdvanceUncond(t, pc, taken, n, logged) ==
    \E h \in Handles :
        /\ FreeSlot(h, n)
        /\ updateHistories(t, pc, TRUE, taken, h)
        /\ branch' = [branch EXCEPT ![h] = [tid |-> t, pc |-> pc, advanced |-> TRUE]]
        /\ ghost' = GhostAdvance(h, t, BitAnd(pc, pcMask), TRUE)
        /\ note' = {"uncond", "new"} \cup Flag(taken, "taken")
        /\ lastAdv' = [lastAdv EXCEPT
              ![t] = [h |-> h, post |-> <<globalHistoryReg'[t], pathTable'[t]>>]]
        /\ Logged(t, BitAnd(pc, pcMask), taken, logged)
        /\ UNCHANGED nTrain

\* what is remembered once handle h is disposed without a squash
GhostDispose(h) ==
    [g \in Handles |->
        IF g = h THEN NoGhost
        ELSE IF ghost[g].prev = h THEN [ghost[g] EXCEPT !.prev = 0, !.expect = <<>>]
        ELSE ghost[g]]

\* update at resolution; cap bounds the trainings of one behaviour
Train(h, taken, squashed, cap) ==
    /\ live(h)
    /\ update_trains(bp_history[h], squashed) => nTrain < cap
    /\ update(branch[h].tid, branch[h].pc, taken, h, squashed)
    /\ nTrain' = IF update_trains(bp_history[h], squashed) THEN nTrain + 1 ELSE nTrain
    /\ note' = Flag(update_trains(bp_history[h], squashed), "trained")
                  \cup Flag(squashed, "squashed") \cup Flag(taken, "taken")
    /\ IF squashed
       THEN UNCHANGED <<branch, ghost, lastAdv>>
       ELSE /\ branch' = [branch EXCEPT ![h] = NoBranch]
            /\ ghost' = GhostDispose(h)
            /\ lastAdv' = [t \in Threads |->
                              IF lastAdv[t].h = h THEN NoAdv ELSE lastAdv[t]]
    /\ UNCHANGED advLog

\* what is remembered once handle h of thread t is squashed
GhostSquash(h, t) ==
    [g \in Handles |->
        IF g = h THEN NoGhost
        ELSE IF live(g) THEN Touched(g, t, bp_history[h].new_pc)
        ELSE ghost[g]]

\* squash of a branch whose histories were advanced
Revert(h) ==
    /\ live(h)
    /\ branch[h].advanced
    /\ LET t == branch[h].tid
       IN  /\ squash(t, h)
           /\ branch' = [branch EXCEPT ![h] = NoBranch]
           /\ ghost' = GhostSquash(h, t)
           /\ note' = Flag(ghost[h].cleanT, "cleanT") \cup Flag(ghost[h].cleanL, "cleanL")
                         \cup Flag(ghost[h].prev # 0, "prev")
                         \cup Flag(globalHistoryReg[t] # bp_history[h].globalHistoryReg,
                                 "rewound")
                         \cup Flag(bp_history[h].branchAddrReplaced
                                   /\ bp_history[h].branchAddr # 0, "pushback")
                         \cup Flag(ghost[h].prev # 0 /\ bp_history[h].new_pc # 0
                                   /\ bp_history[ghost[h].prev].new_pc = bp_history[h].new_pc,
                                 "same")
           /\ lastAdv' = [lastAdv EXCEPT ![t] = NoAdv]
           /\ UNCHANGED <<advLog, nTrain>>

Next ==
    \/ \E t \in Threads, pc \in Buckets : Predict(t, pc, MaxHandles)
    \/ \E h \in Handles, taken \in BOOLEAN : Advance(h, FALSE, taken, FALSE, 0)
    \/ \E t \in Threads, pc \in Buckets, taken \in BOOLEAN :
          AdvanceUncond(t, pc, taken, MaxHandles, FALSE)
    \/ \E h \in Handles, taken \in BOOLEAN, squashed \in BOOLEAN :
          Train(h, taken, squashed, MaxTrain)
    \/ \E h \in Handles : Revert(h)

Spec == Init /\ [][Next]_vars

(***************************************************************************)
(* SpecHist: the calls that read and write the histories, two branches in  *)
(* flight on two threads.  No training: the weights stay zero.             *)
(***************************************************************************)
InitHist == Construct(ConfigsHist)

NextHist ==
    \/ \E t \in Threads, pc \in Buckets : Predict(t, pc, MaxHandles)
    \/ \E h \in Handles, taken \in BOOLEAN : Advance(h, FALSE, taken, FALSE, 0)
    \/ \E t \in Threads, pc \in Buckets, taken \in BOOLEAN :
          AdvanceUncond(t, pc, taken, MaxHandles, FALSE)
    \/ \E h \in Handles : Revert(h)

SpecHist == InitHist /\ [][NextHist]_vars

(***************************************************************************)
(* SpecTrain: every call, one branch in flight at a time, more trainings,  *)
(* addresses above the bucket range, and updateHistories called with       *)
(* uncond for a branch that has a snapshot.                                *)
(***************************************************************************)
InitTrain == Construct(ConfigsTrain)

NextTrain ==
    \/ \E t \in Threads, pc \in Addrs : Predict(t, pc, 1)
    \/ \E h \in Handles, uncond \in BOOLEAN, taken \in BOOLEAN :
          Advance(h, uncond, taken, FALSE, MaxLeaks)
    \/ \E t \in Threads, pc \in Addrs, taken \in BOOLEAN :
          AdvanceUncond(t, pc, taken, 1, FALSE)
    \/ \E h \in Handles, taken \in BOOLEAN, squashed \in BOOLEAN :
          Train(h, taken, squashed, MaxTrainT)
    \/ \E h \in Handles : Revert(h)

SpecTrain == InitTrain /\ [][NextTrain]_vars

(***************************************************************************)
(* C1.  Round trip: lookup, updateHistories and then squash of the same    *)
(* branch, with no other call changing the thread's histories or the       *)
(* bucket's local history in between, leave the thread's global history    *)
(* register, the local history register of the branch's bucket and the     *)
(* thread's path queue as they were just before updateHistories.           *)
(***************************************************************************)
RoundTrip ==
    [][\A h \in Handles :
          (Revert(h) /\ ghost[h].cleanT /\ ghost[h].cleanL) =>
              LET t == branch[h].tid
                  b == BitAnd(branch[h].pc, pcMask)
              IN  /\ ghost[h].pre # <<>>
                  /\ globalHistoryReg'[t] = ghost[h].pre[1]
                  /\ branchHistoryTable'[b] = ghost[h].pre[2][b]
                  /\ pathTable'[t] = ghost[h].pre[3]]_vars

\* a round trip has just ended on a thread whose histories are not all zero
RoundTripDone ==
    /\ op.name = "squash"
    /\ {"cleanT", "cleanL"} \subseteq note
    /\ \E t \in Threads :
          /\ globalHistoryReg[t] # 0
          /\ \E i \in 1 .. Len(pathTable[t]) : pathTable[t][i] # 0
    /\ \E b \in Buckets : branchHistoryTable[b] # 0

(***************************************************************************)
(* C2.  Squash scenario: branch A is advanced on a thread, then branch B   *)
(* is predicted and advanced on the same thread, then B is squashed, with  *)
(* no other call changing the thread's histories from A's advance on.      *)
(* The squash leaves A's snapshot and both weight tables unchanged, and    *)
(* the thread's global history register and path queue equal to what they  *)
(* were just after A's advance.  No call about another branch changes A's  *)
(* snapshot, whatever the buckets of A and B.                              *)
(***************************************************************************)
SquashScenario ==
    [][/\ \A b \in Handles :
            (Revert(b) /\ ghost[b].cleanT /\ ghost[b].prev # 0) =>
                LET a == ghost[b].prev
                    t == branch[b].tid
                IN  /\ live(a) /\ branch[a].advanced /\ branch[a].tid = t
                    /\ bp_history'[a] = bp_history[a]
                    /\ historyWeightTable' = historyWeightTable
                    /\ addrWeightTable' = addrWeightTable
                    /\ globalHistoryReg'[t] = ghost[b].expect[1]
                    /\ pathTable'[t] = ghost[b].expect[2]
       /\ \A a \in Handles :
            (live(a) /\ branch'[a] = branch[a]) => bp_history'[a] = bp_history[a]]_vars

\* B has just been squashed, A is in flight, and A and B are in the same bucket
SquashScenarioDone ==
    /\ op.name = "squash"
    /\ {"cleanT", "prev", "same"} \subseteq note
    /\ \E a \in Handles, t \in Threads :
          /\ live(a) /\ branch[a].advanced /\ branch[a].tid = t
          /\ pathTable[t][1] = bp_history[a].new_pc
          /\ bp_history[a].new_pc # 0
          /\ globalHistoryReg[t] # 0

(***************************************************************************)
(* C3.  lookup is read-only over the shared state: it leaves every global  *)
(* history register, every local history register, every path queue and    *)
(* every weight of both tables unchanged, and its only effect is a new     *)
(* snapshot in the caller's handle; a lookup that follows a lookup with    *)
(* the same thread and address returns the same direction and score.       *)
(***************************************************************************)
LookupReadOnly ==
    [][\A t \in Threads, pc \in Addrs :
          Predict(t, pc, MaxHandles) =>
              /\ UNCHANGED <<globalHistoryReg, branchHistoryTable, pathTable,
                             historyWeightTable, addrWeightTable>>
              /\ \E h \in Handles :
                    /\ ~live(h)
                    /\ bp_history'[h] # nullptr
                    /\ \A g \in Handles \ {h} : bp_history'[g] = bp_history[g]
              /\ (op.name = "lookup" /\ op.tid = t /\ op.pc = pc) =>
                    (op'.ret = op.ret /\ op'.y = op.y)]_vars

\* a second lookup with the same inputs has just returned, with trained
\* weights: the score is negative and the direction not taken
LookupTwice ==
    /\ op.name = "lookup"
    /\ "again" \in note
    /\ op.y < 0
    /\ ~op.ret

(***************************************************************************)
(* SpecSat: one thread runs one branch address again and again (lookup,    *)
(* updateHistories as taken, update), long enough for the score to leave   *)
(* the band [-Theta, Theta].                                               *)
(***************************************************************************)
InitSat == Construct(ConfigsSat)

SatAddrs == {1}

NextSat ==
    \/ \E t \in Threads, pc \in SatAddrs : Predict(t, pc, 1)
    \/ \E h \in Handles : Advance(h, FALSE, TRUE, FALSE, 0)
    \/ \E h \in Handles, taken \in BOOLEAN, squashed \in BOOLEAN :
          Train(h, taken, squashed, MaxTrainSat)
    \/ \E h \in Handles : Revert(h)

SpecSat == InitSat /\ [][NextSat]_vars

(***************************************************************************)
(* C4.  Saturation policy: update changes weights if and only if squashed  *)
(* is true or the snapshot's score lies in [-64, 64]; with a score outside *)
(* the band and squashed false, every weight of both tables is unchanged,  *)
(* for either value of taken.                                              *)
(***************************************************************************)
SaturationPolicy ==
    [][\A h \in Handles, taken \in BOOLEAN, squashed \in BOOLEAN :
          Train(h, taken, squashed, MaxTrainSat) =>
              LET y == bp_history[h].last_y
                  inBand == -64 <= y /\ y <= 64
              IN  (squashed \/ inBand) <=>
                     (historyWeightTable' # historyWeightTable
                          \/ addrWeightTable' # addrWeightTable)]_vars

\* update has just returned without training, with the score above the band
\* or below it
Saturated ==
    /\ op.name = "update"
    /\ "trained" \notin note
    /\ "squashed" \notin note
    /\ \E b \in Buckets : historyWeightTable[b][0] > 10 \/ historyWeightTable[b][0] < -10

(***************************************************************************)
(* C5.  Training is driven by the snapshot, not by the live state.  When   *)
(* update trains, the history weight changed at step j (1..history_length) *)
(* is historyWeightTable[k][j] with k the snapshot's path entry j-1,       *)
(* incremented iff taken equals bit j-1 of the combined history made of    *)
(* the snapshot's global (high bits) and local (low bits) values; the      *)
(* address weight changed at step j (1..branchAddrBits) is                 *)
(* addrWeightTable[k][j] for the same k, incremented iff taken equals bit  *)
(* j-1 of the snapshot's bucket; the bias weights [bucket][0] of both      *)
(* tables are incremented iff taken.  The values of the snapshot that      *)
(* training reads are those lookup (or an unconditional updateHistories)   *)
(* put there: no later call changes them.                                  *)
(***************************************************************************)
\* +1 or -1
Toward(up) == IF up THEN 1 ELSE -1

\* the change of historyWeightTable[k][j] the claim gives for snapshot s
HistDelta(s, taken, k, j) ==
    LET combined == s.globalHistoryReg * Pow2(localHistoryBits) + s.local
    IN  IF j = 0 THEN (IF k = s.new_pc THEN Toward(taken) ELSE 0)
        ELSE IF k = s.path[j]
             THEN Toward(taken = (((combined \div Pow2(j - 1)) % 2) = 1))
             ELSE 0

\* the change of addrWeightTable[k][j] the claim gives for snapshot s
AddrDelta(s, taken, k, j) ==
    IF j = 0 THEN (IF k = s.new_pc THEN Toward(taken) ELSE 0)
    ELSE IF k = s.path[j]
         THEN Toward(taken = (((s.new_pc \div Pow2(j - 1)) % 2) = 1))
         ELSE 0

\* the values of a snapshot that training reads
Trained(s) == <<s.globalHistoryReg, s.local, s.path, s.new_pc, s.last_y>>

TrainFromSnapshot ==
    [][/\ \A h \in Handles, taken \in BOOLEAN, squashed \in BOOLEAN :
            (Train(h, taken, squashed, MaxTrainT) /\ "trained" \in note') =>
                LET s == bp_history[h]
                IN  /\ \A k \in Buckets, j \in 0 .. history_length :
                          historyWeightTable'[k][j] =
                              historyWeightTable[k][j] + HistDelta(s, taken, k, j)
                    /\ \A k \in Buckets, j \in 0 .. branchAddrBits :
                          addrWeightTable'[k][j] =
                              addrWeightTable[k][j] + AddrDelta(s, taken, k, j)
       /\ \A h \in Handles :
            (live(h) /\ bp_history'[h] # nullptr
                     /\ ~(op'.name = "updateHistories" /\ "uncond" \in note')) =>
                Trained(bp_history'[h]) = Trained(bp_history[h])]_vars

\* update has just trained from a snapshot (kept, as the branch was squashed)
\* whose global history, local history and path all differ from the live ones
TrainedFromOldSnapshot ==
    /\ op.name = "update"
    /\ {"trained", "squashed"} \subseteq note
    /\ \E h \in Handles :
          /\ live(h)
          /\ bp_history[h].globalHistoryReg # globalHistoryReg[branch[h].tid]
          /\ bp_history[h].local # branchHistoryTable[bp_history[h].new_pc]
          /\ bp_history[h].path # pathTable[branch[h].tid]
          /\ bp_history[h].path[1] # bp_history[h].new_pc

(***************************************************************************)
(* C6.  Training monotonicity: one update moves every weight it touches by *)
(* exactly +1 or -1 (no position is stepped twice, also when several path  *)
(* entries name one bucket), leaves every other weight unchanged, and      *)
(* changes history_length + branchAddrBits + 2 weights when it trains and  *)
(* none when it does not.                                                  *)
(***************************************************************************)
Abs(x) == IF x < 0 THEN -x ELSE x

\* the positions of the two tables whose weights a step changes
MovedHist == {kj \in Buckets \X (0 .. history_length) :
                 historyWeightTable'[kj[1]][kj[2]] # historyWeightTable[kj[1]][kj[2]]}
MovedAddr == {kj \in Buckets \X (0 .. branchAddrBits) :
                 addrWeightTable'[kj[1]][kj[2]] # addrWeightTable[kj[1]][kj[2]]}

TrainingMonotone ==
    [][\A h \in Handles, taken \in BOOLEAN, squashed \in BOOLEAN :
          Train(h, taken, squashed, MaxTrainT) =>
              /\ \A kj \in MovedHist :
                    Abs(historyWeightTable'[kj[1]][kj[2]]
                            - historyWeightTable[kj[1]][kj[2]]) = 1
              /\ \A kj \in MovedAddr :
                    Abs(addrWeightTable'[kj[1]][kj[2]]
                            - addrWeightTable[kj[1]][kj[2]]) = 1
              /\ Cardinality(MovedHist) + Cardinality(MovedAddr) =
                    IF "trained" \in note'
                    THEN history_length + branchAddrBits + 2
                    ELSE 0]_vars

\* update has just trained from a snapshot whose path names one bucket twice,
\* on weights an earlier training had moved
TrainedTwice ==
    /\ op.name = "update"
    /\ {"trained", "squashed"} \subseteq note
    /\ nTrain = 2
    /\ \E h \in Handles :
          /\ live(h)
          /\ Len(bp_history[h].path) >= 2
          /\ bp_history[h].path[1] = bp_history[h].path[2]
    /\ \E b \in Buckets : Abs(historyWeightTable[b][0]) = 2

(***************************************************************************)
(* C7.  lookup returns taken exactly when y_total >= 0, where y_total is   *)
(* historyWeightTable[bucket][0] plus, for j = 1..history_length, plus or  *)
(* minus historyWeightTable[path[j-1]][j] (plus iff bit j-1 of the         *)
(* combined history, global in the high bits and local in the low bits, is *)
(* 1), plus addrWeightTable[bucket][0] plus, for j = 1..branchAddrBits,    *)
(* plus or minus addrWeightTable[path[j-1]][j] (plus iff bit j-1 of bucket *)
(* is 1), with path the thread's live path queue; the snapshot records     *)
(* y_total as its score.  A freshly constructed predictor predicts taken   *)
(* with score 0 for every thread and address.                              *)
(***************************************************************************)
Signed(w, bit) == IF bit = 1 THEN w ELSE -w

\* the sum over j = 1..n of the signed weights table[path[j-1]][j]
RECURSIVE PathSum(_, _, _, _)
PathSum(table, path, bits, n) ==
    IF n = 0 THEN 0
    ELSE PathSum(table, path, bits, n - 1)
             + Signed(table[path[n]][n], (bits \div Pow2(n - 1)) % 2)

YTotal(t, pc) ==
    LET bucket == pc % Pow2(branchAddrBits)
        global == globalHistoryReg[t] % Pow2(globalHistoryBits)
        local == branchHistoryTable[bucket] % Pow2(localHistoryBits)
        combined == global * Pow2(localHistoryBits) + local
    IN  historyWeightTable[bucket][0]
            + PathSum(historyWeightTable, pathTable[t], combined, history_length)
            + addrWeightTable[bucket][0]
            + PathSum(addrWeightTable, pathTable[t], bucket, branchAddrBits)

Fresh ==
    /\ \A k \in Buckets, j \in 0 .. history_length : historyWeightTable[k][j] = 0
    /\ \A k \in Buckets, j \in 0 .. branchAddrBits : addrWeightTable[k][j] = 0

LookupScore ==
    [][\A t \in Threads, pc \in Addrs :
          Predict(t, pc, 1) =>
              /\ op'.y = YTotal(t, pc)
              /\ op'.ret = (YTotal(t, pc) >= 0)
              /\ \E h \in Handles :
                    ~live(h) /\ bp_history'[h] # nullptr
                             /\ bp_history'[h].last_y = YTotal(t, pc)
              /\ Fresh => (op'.ret /\ op'.y = 0)]_vars

\* lookup has just returned not taken, on a negative score, for a branch
\* whose path names another bucket than its own
LookedUpNotTaken ==
    /\ op.name = "lookup"
    /\ op.y < 0
    /\ ~op.ret
    /\ \E i \in 1 .. Len(pathTable[op.tid]) :
          pathTable[op.tid][i] # op.pc % Pow2(branchAddrBits)

(***************************************************************************)
(* SpecAdv: from a fresh predictor, branches are predicted and advanced    *)
(* one after the other and none is squashed; advLog records each thread's  *)
(* advances.                                                               *)
(***************************************************************************)
InitAdv == Construct(ConfigsAdv)

AllAdvanced == \A g \in Handles : live(g) => branch[g].advanced

NextAdv ==
    \/ \E t \in Threads, pc \in Addrs : AllAdvanced /\ Predict(t, pc, MaxLog)
    \/ \E h \in Handles, taken \in BOOLEAN : Advance(h, FALSE, taken, TRUE, 0)
    \/ \E t \in Threads, pc \in Addrs, taken \in BOOLEAN :
          AdvanceUncond(t, pc, taken, MaxLog, TRUE)

SpecAdv == InitAdv /\ [][NextAdv]_vars

(***************************************************************************)
(* C8.  History advance from a fresh predictor: after n advances on one    *)
(* thread with buckets b1..bn and outcomes t1..tn and no squash, the       *)
(* thread's global register holds the last globalHistoryBits outcomes with *)
(* tn in bit 0, and the path queue read front to back is bn, bn-1, ...,    *)
(* most recent first, cut at the capacity max(branchAddrBits,              *)
(* history_length) (while n is below the capacity, the zeros the queue     *)
(* started with follow).  With global width 4, local width 0, address      *)
(* width 2, one thread and four taken branches at addresses 0, 1, 2, 3,    *)
(* the global register is 0b1111 and the path queue is [3, 2, 1, 0].       *)
(***************************************************************************)
\* the register holding the last `width` outcomes of log, the last in bit 0
RECURSIVE LastOutcomes(_, _)
LastOutcomes(log, width) ==
    IF width = 0 \/ log = <<>> THEN 0
    ELSE (IF log[Len(log)][2] THEN 1 ELSE 0)
             + 2 * LastOutcomes(SubSeq(log, 1, Len(log) - 1), width - 1)

Capacity == IF branchAddrBits >= history_length THEN branchAddrBits ELSE history_length

Scenario == <<<<0, TRUE>>, <<1, TRUE>>, <<2, TRUE>>, <<3, TRUE>>>>

AdvanceFromFresh ==
    /\ \A t \in Threads :
          LET log == advLog[t]
              n == Len(log)
          IN  /\ globalHistoryReg[t] = LastOutcomes(log, globalHistoryBits)
              /\ Len(pathTable[t]) = Capacity
              /\ \A i \in 1 .. Capacity :
                    pathTable[t][i] = IF i <= n THEN log[n - i + 1][1] ELSE 0
    /\ (params = Params(4, 0, 2, 1) /\ advLog[0] = Scenario) =>
          (globalHistoryReg[0] = 15 /\ pathTable[0] = <<3, 2, 1, 0>>)

\* the fourth advance of the scenario has just returned
ScenarioDone ==
    /\ params = Params(4, 0, 2, 1)
    /\ advLog[0] = Scenario
    /\ op.name = "updateHistories"
    /\ globalHistoryReg[0] = 15
    /\ pathTable[0] = <<3, 2, 1, 0>>

(***************************************************************************)
(* C9.  Snapshot lifecycle: update with squashed false disposes of the     *)
(* snapshot and clears the caller's handle; update with squashed true      *)
(* leaves the snapshot alive with every field unchanged, for a following   *)
(* squash to consume; squash disposes of the snapshot and clears the       *)
(* handle.  With the callers of Spec, every snapshot made and not yet      *)
(* disposed of is the one snapshot of a handle: none is lost, none is      *)
(* disposed of twice.                                                      *)
(***************************************************************************)
SnapshotLifecycle ==
    [][/\ \A h \in Handles, taken \in BOOLEAN :
            /\ Train(h, taken, FALSE, MaxTrain) =>
                  (bp_history'[h] = nullptr /\ heap' = heap - 1)
            /\ Train(h, taken, TRUE, MaxTrain) =>
                  (bp_history'[h] = bp_history[h] /\ live(h) /\ heap' = heap)
       /\ \A h \in Handles :
            Revert(h) => (bp_history'[h] = nullptr /\ heap' = heap - 1)
       /\ heap' = Cardinality({h \in Handles : bp_history'[h] # nullptr})]_vars

\* update has just trained a squashed branch and left its snapshot, which a
\* squash can now consume
KeptForSquash ==
    /\ op.name = "update"
    /\ {"trained", "squashed"} \subseteq note
    /\ heap = 1
    /\ \E h \in Handles : live(h) /\ branch[h].advanced /\ bp_history[h].branchAddrReplaced

(***************************************************************************)
(* C10, as claimed.  No call of lookup, update or squash changes a global  *)
(* history register or a local history register, and none of them adds an  *)
(* entry to a path queue.                                                  *)
(***************************************************************************)
OnlyAdvanceMutates ==
    [][op'.name \in {"lookup", "update", "squash"} =>
          /\ globalHistoryReg' = globalHistoryReg
          /\ branchHistoryTable' = branchHistoryTable
          /\ \A t \in Threads :
                \/ pathTable'[t] = pathTable[t]
                \/ pathTable[t] # <<>> /\ pathTable'[t] = Tail(pathTable[t])]_vars

(***************************************************************************)
(* C10, amended.  lookup and update change no history register and no path *)
(* queue.  squash changes the global history register of its thread and    *)
(* the local history register of the snapshot's bucket, and no other       *)
(* register, by writing back the values the snapshot recorded; it removes  *)
(* the front entry of its thread's path queue and adds, at the back, the   *)
(* evicted address the snapshot recorded, and changes no other queue.      *)
(***************************************************************************)
SquashWritesBack ==
    [][/\ op'.name \in {"lookup", "update"} =>
             UNCHANGED <<globalHistoryReg, branchHistoryTable, pathTable>>
       /\ \A h \in Handles :
             Revert(h) =>
                 LET t == branch[h].tid
                     s == bp_history[h]
                 IN  /\ \A u \in Threads :
                           globalHistoryReg'[u] =
                               IF u = t THEN s.globalHistoryReg ELSE globalHistoryReg[u]
                     /\ \A b \in Buckets :
                           branchHistoryTable'[b] =
                               IF b = s.new_pc THEN s.local ELSE branchHistoryTable[b]
                     /\ \A u \in Threads :
                           pathTable'[u] =
                               IF u # t THEN pathTable[u]
                               ELSE Tail(pathTable[t]) \o
                                    (IF s.branchAddrReplaced THEN <<s.branchAddr>> ELSE <<>>)]_vars

\* squash has just written an older value back into a global history
\* register and pushed a non-zero evicted address back onto a path queue
SquashWroteBack ==
    /\ op.name = "squash"
    /\ {"rewound", "pushback"} \subseteq note

(***************************************************************************)
(* C11.  Thread isolation: an updateHistories or squash called for thread  *)
(* t leaves the global history register and the path queue of every other  *)
(* thread unchanged, changes no local history register but the one of the  *)
(* branch's bucket, and changes no weight.                                 *)
(***************************************************************************)
Isolated(t, b) ==
    /\ \A u \in Threads \ {t} :
          /\ globalHistoryReg'[u] = globalHistoryReg[u]
          /\ pathTable'[u] = pathTable[u]
    /\ \A c \in Buckets \ {b} : branchHistoryTable'[c] = branchHistoryTable[c]
    /\ historyWeightTable' = historyWeightTable
    /\ addrWeightTable' = addrWeightTable

ThreadIsolation ==
    [][/\ \A h \in Handles, taken \in BOOLEAN :
             Advance(h, FALSE, taken, FALSE, 0) =>
                 Isolated(branch[h].tid, BitAnd(branch[h].pc, pcMask))
       /\ \A t \in Threads, pc \in Buckets, taken \in BOOLEAN :
             AdvanceUncond(t, pc, taken, MaxHandles, FALSE) =>
                 Isolated(t, BitAnd(pc, pcMask))
       /\ \A h \in Handles :
             Revert(h) => Isolated(branch[h].tid, bp_history[h].new_pc)]_vars

\* a call has just advanced or rolled back one of two threads while the
\* other thread's global history and path queue hold recorded branches
OtherThreadBusy ==
    /\ op.name \in {"updateHistories", "squash"}
    /\ params.numThreads = 2
    /\ \A t \in Threads :
          /\ globalHistoryReg[t] # 0
          /\ pathTable[t][1] # 0
    /\ \E b \in Buckets : branchHistoryTable[b] # 0

(***************************************************************************)
(* SpecUse: one branch in flight, and callers that call update or squash   *)
(* once more with the handle of a snapshot that the call before disposed   *)
(* of.                                                                     *)
(***************************************************************************)
ConfigsUse == {Params(1, 1, 1, 1)}

InitUse == Construct(ConfigsUse)

\* the call before disposed of the snapshot of handle h
JustDisposed(h) ==
    /\ h = 1
    /\ ~live(h)
    /\ op.name \in {"update", "squash"}

TrainDisposed(t, pc, taken, squashed, h) ==
    /\ JustDisposed(h)
    /\ nTrain < MaxTrain
    /\ update_null(t, pc, taken, h, squashed)
    /\ nTrain' = nTrain + 1
    /\ note' = {"disposed"}
    /\ UNCHANGED <<branch, ghost, lastAdv, advLog>>

RevertDisposed(t, h) ==
    /\ JustDisposed(h)
    /\ squash_null(t, h)
    /\ note' = {"disposed"}
    /\ UNCHANGED <<branch, ghost, lastAdv, advLog, nTrain>>

\* no call was made yet with the handle of a disposed snapshot: what the
\* program does after one is not followed
Running == "disposed" \notin note

NextUse ==
    \/ \E t \in Threads, pc \in Buckets : Running /\ Predict(t, pc, 1)
    \/ \E h \in Handles, taken \in BOOLEAN :
          Running /\ Advance(h, FALSE, taken, FALSE, 0)
    \/ \E h \in Handles, taken \in BOOLEAN, squashed \in BOOLEAN :
          Running /\ Train(h, taken, squashed, MaxTrain)
    \/ \E h \in Handles : Running /\ Revert(h)
    \/ \E t \in Threads, pc \in Buckets, taken \in BOOLEAN, squashed \in BOOLEAN,
          h \in Handles : Running /\ TrainDisposed(t, pc, taken, squashed, h)
    \/ \E t \in Threads, h \in Handles : Running /\ RevertDisposed(t, h)

SpecUse == InitUse /\ [][NextUse]_vars

(***************************************************************************)
(* C12, as claimed.  update or squash called with the handle of a snapshot *)
(* already disposed of is detected and rejected as an error, and changes   *)
(* no history register, no path queue and no weight.                       *)
(***************************************************************************)
DisposedUseRejected ==
    [][(\/ \E t \in Threads, pc \in Buckets, taken \in BOOLEAN, squashed \in BOOLEAN,
             h \in Handles : TrainDisposed(t, pc, taken, squashed, h)
        \/ \E t \in Threads, h \in Handles : RevertDisposed(t, h))
          => /\ op'.name = "assert"
             /\ UNCHANGED <<globalHistoryReg, branchHistoryTable, pathTable,
                            historyWeightTable, addrWeightTable>>]_vars

(***************************************************************************)
(* SpecMask: the masks the constructor builds, over widths around 0, the   *)
(* width of unsigned and the width of Addr.  Only the masks are built: the *)
(* tables of such an instance are not.                                     *)
(***************************************************************************)
MaskWidths == {0, 1, 2, 31, 32, 33, 63, 64, 65}

InitMask ==
    /\ params \in {Params(g, l, a, 1) : g \in MaskWidths, l \in MaskWidths, a \in MaskWidths}
    /\ globalHistoryReg = <<>>
    /\ branchHistoryTable = <<>>
    /\ pathTable = <<>>
    /\ historyWeightTable = <<>>
    /\ addrWeightTable = <<>>
    /\ bp_history = <<>>
    /\ heap = 0
    /\ branch = <<>>
    /\ op = Called("new")
    /\ ghost = <<>>
    /\ lastAdv = <<>>
    /\ advLog = <<>>
    /\ note = {}
    /\ nTrain = 0

\* lines 24-26: op records the number of low-order bits set in each member
BuildMasks ==
    /\ op.name = "new"
    /\ op' = [name |-> "masks", globalHistoryMask |-> globalHistoryMaskBits,
              localMask |-> localMaskBits, pcMask |-> pcMaskBits]
    /\ UNCHANGED <<params, globalHistoryReg, branchHistoryTable, pathTable,
                   historyWeightTable, addrWeightTable, bp_history, heap,
                   branch, ghost, lastAdv, advLog, note, nTrain>>

NextMask == BuildMasks

SpecMask == InitMask /\ [][NextMask]_vars

(***************************************************************************)
(* C13.  Masking correctness: for each of the global, local and address    *)
(* masks, a width of 0 yields the mask 0, a width of at least the width of *)
(* the unsigned member that stores the mask yields all ones in it, and a   *)
(* width w strictly between yields exactly the w low-order bits set, the   *)
(* value 2^w - 1.                                                          *)
(***************************************************************************)
MaskRight(w, ones) ==
    /\ w = 0 => ones = 0 /\ LowOnes(ones) = 0
    /\ w >= UnsignedBits => ones = UnsignedBits
    /\ (0 < w /\ w < UnsignedBits) => ones = w
    /\ (0 < w /\ w < UnsignedBits - 1) => LowOnes(ones) = 2 ^ w - 1

MaskingCorrect ==
    op.name = "masks" =>
        /\ MaskRight(params.globalHistoryBits, op.globalHistoryMask)
        /\ MaskRight(params.localHistoryBits, op.localMask)
        /\ MaskRight(params.branchAddrBits, op.pcMask)

\* the masks are built for a width of 0, a width between, and a width of at
\* least the width of Addr
MasksBuilt ==
    /\ op.name = "masks"
    /\ params.globalHistoryBits = 0
    /\ params.localHistoryBits = 31
    /\ params.branchAddrBits >= AddrBits

(***************************************************************************)
(* SpecNest: one thread, branches predicted and advanced one after the     *)
(* other and squashed youngest first, the way a pipeline flush unwinds.    *)
(* The handles in use are 1..k, the branch of handle k being the youngest. *)
(* Here ghost[h] remembers for an advanced branch                          *)
(*   pre  globalHistoryReg[t], branchHistoryTable and pathTable[t] just    *)
(*        before its advance                                               *)
(*   run  its position in the run of advances it belongs to, counted from  *)
(*        1 for the first; 0 once a squash came between the advances of    *)
(*        the run                                                          *)
(* and lastAdv[t].h is the branch advanced last if no squash came since.   *)
(***************************************************************************)
ConfigsNest == {Params(1, 1, 1, 1), Params(1, 0, 2, 1)}

InitNest == Construct(ConfigsNest)

Youngest(h) == live(h) /\ \A g \in Handles : g > h => ~live(g)

NestPredict(t, pc) ==
    /\ AllAdvanced
    /\ Predict(t, pc, MaxNest)

NestAdvance(h, taken) ==
    /\ live(h)
    /\ ~branch[h].advanced
    /\ LET t == branch[h].tid
           straight == h > 1 /\ lastAdv[t].h = h - 1 /\ ghost[h - 1].run # 0
       IN  /\ updateHistories(t, branch[h].pc, FALSE, taken, h)
           /\ branch' = [branch EXCEPT ![h].advanced = TRUE]
           /\ ghost' = [g \in Handles |->
                 IF g = h
                 THEN [pre |-> <<globalHistoryReg[t], branchHistoryTable, pathTable[t]>>,
                       run |-> IF straight THEN ghost[h - 1].run + 1 ELSE 1]
                 ELSE IF g < h /\ ~straight THEN [ghost[g] EXCEPT !.run = 0]
                 ELSE ghost[g]]
           /\ lastAdv' = [lastAdv EXCEPT ![t] = [h |-> h, post |-> <<>>]]
           /\ note' = Flag(taken, "taken")
           /\ UNCHANGED <<advLog, nTrain>>

NTag(n) == <<"n1", "n2", "n3", "n4", "n5", "n6">>[n]

\* the squash of h continues the unwinding of a run of advances that no
\* squash interrupted: h is the branch advanced last, or the call before
\* was such a squash of the branch advanced after h
Unwinding(h) ==
    /\ ghost[h].run # 0
    /\ \/ lastAdv[branch[h].tid].h = h
       \/ op.name = "squash" /\ "pure" \in note

\* the branches of the run that ends with h
RunOf(h) == (h - ghost[h].run + 1) .. h

NestRevert(h) ==
    /\ Youngest(h)
    /\ branch[h].advanced
    /\ LET t == branch[h].tid
           top == lastAdv[t].h = h
           n == IF top THEN ghost[h].run
                ELSE CHOOSE k \in 1 .. MaxNest : NTag(k) \in note
           rep == IF top
                  THEN \E a \in RunOf(h), b \in RunOf(h) :
                          a # b /\ bp_history[a].new_pc = bp_history[b].new_pc
                  ELSE "repeat" \in note
       IN  /\ squash(t, h)
           /\ branch' = [branch EXCEPT ![h] = NoBranch]
           /\ ghost' = [ghost EXCEPT ![h] = NoGhost]
           /\ lastAdv' = [lastAdv EXCEPT ![t] = NoAdv]
           /\ note' = IF Unwinding(h)
                      THEN {"pure", NTag(n)} \cup Flag(rep, "repeat")
                              \cup Flag(ghost[h].run = 1, "base")
                      ELSE {}
           /\ UNCHANGED <<advLog, nTrain>>

NextNest ==
    \/ \E t \in Threads, pc \in Buckets : NestPredict(t, pc)
    \/ \E h \in Handles, taken \in BOOLEAN : NestAdvance(h, taken)
    \/ \E h \in Handles : NestRevert(h)

SpecNest == InitNest /\ [][NextNest]_vars

(***************************************************************************)
(* C14.  Nested rollback: branches B1..Bn of one thread, n >= 1, are each  *)
(* predicted and advanced in that order with no other change of the        *)
(* histories in between, and then squashed youngest first.  The squash of  *)
(* B1 leaves the thread's global history register, its path queue and      *)
(* every local history register as they were just before B1's advance,     *)
(* whatever the buckets and also for n above the capacity of the queue.    *)
(***************************************************************************)
NestedRollback ==
    [][\A h \in Handles :
          (NestRevert(h) /\ Unwinding(h) /\ ghost[h].run = 1) =>
              LET t == branch[h].tid
              IN  /\ globalHistoryReg'[t] = ghost[h].pre[1]
                  /\ branchHistoryTable' = ghost[h].pre[2]
                  /\ pathTable'[t] = ghost[h].pre[3]]_vars

\* three branches, more than the queue holds and two of them in one bucket,
\* have just been unwound down to histories that record earlier branches
NestedRollbackDone ==
    /\ op.name = "squash"
    /\ {"pure", "base", "repeat", "n3"} \subseteq note
    /\ PT_LEN < 3
    /\ \E t \in Threads :
          /\ globalHistoryReg[t] # 0
          /\ pathTable[t][1] # 0
    /\ \E b \in Buckets : branchHistoryTable[b] # 0

(***************************************************************************)
(* C15.  Path-queue length: with squash called only for snapshots that     *)
(* went through updateHistories, every thread's path queue holds exactly   *)
(* max(branchAddrBits, history_length) entries in every reachable state,   *)
(* and so does the path copy of every snapshot; every updateHistories      *)
(* therefore evicts the back entry and sets branchAddrReplaced, and every  *)
(* index j-1, j up to history_length or branchAddrBits, that lookup and    *)
(* update read lies inside the queue or the copy.                          *)
(***************************************************************************)
PathLength ==
    /\ \A t \in Threads : Len(pathTable[t]) = Max(branchAddrBits, history_length)
    /\ \A h \in Handles :
          live(h) =>
              /\ Len(bp_history[h].path) = Max(branchAddrBits, history_length)
              /\ branch[h].advanced => bp_history[h].branchAddrReplaced
    /\ \A t \in Threads, j \in 1 .. history_length : j \in DOMAIN pathTable[t]
    /\ \A t \in Threads, j \in 1 .. branchAddrBits : j \in DOMAIN pathTable[t]

\* a squash has just put an evicted address back while another advanced
\* branch is in flight
PathRefilled ==
    /\ op.name = "squash"
    /\ "pushback" \in note
    /\ \E h \in Handles : live(h) /\ branch[h].advanced

(***************************************************************************)
(* SpecIso: thread 0 predicts, advances and squashes one branch at a time  *)
(* (handle 1) while thread 1 advances unconditional branches (the other    *)
(* handles), also in the bucket of thread 0's branch.  Here ghost[1]       *)
(* remembers for the branch of thread 0, once advanced,                    *)
(*   pre  globalHistoryReg[0] and pathTable[0] just before its advance     *)
(*   alt  the branchHistoryTable of the run without the branch: the table  *)
(*        just before its advance, with every later advance of thread 1    *)
(*        shifted in                                                       *)
(***************************************************************************)
ConfigsIso == {Params(1, 1, 1, 2)}

InitIso == Construct(ConfigsIso)

IsoPredict(pc) == Predict(0, pc, 1)

IsoAdvance(taken) ==
    /\ live(1)
    /\ ~branch[1].advanced
    /\ updateHistories(0, branch[1].pc, FALSE, taken, 1)
    /\ branch' = [branch EXCEPT ![1].advanced = TRUE]
    /\ ghost' = [ghost EXCEPT ![1] = [pre |-> <<globalHistoryReg[0], pathTable[0]>>,
                                      alt |-> branchHistoryTable]]
    /\ note' = Flag(taken, "taken")
    /\ UNCHANGED <<lastAdv, advLog, nTrain>>

\* the lowest unused handle variable of thread 1
OtherSlot(h) ==
    /\ h > 1
    /\ ~live(h)
    /\ \A g \in 2 .. (h - 1) : live(g)

IsoOther(pc, taken) ==
    \E h \in Handles :
        /\ OtherSlot(h)
        /\ updateHistories(1, pc, TRUE, taken, h)
        /\ branch' = [branch EXCEPT ![h] = [tid |-> 1, pc |-> pc, advanced |-> TRUE]]
        /\ ghost' = IF live(1) /\ branch[1].advanced
                    THEN [ghost EXCEPT ![1].alt =
                             [@ EXCEPT ![BitAnd(pc, pcMask)] = shift_in(@, taken, localMask)]]
                    ELSE ghost
        /\ note' = Flag(taken, "taken")
                      \cup Flag(live(1) /\ branch[1].advanced, "between")
                      \cup Flag(live(1) /\ BitAnd(pc, pcMask) = bp_history[1].new_pc, "same")
        /\ UNCHANGED <<lastAdv, advLog, nTrain>>

IsoRevert ==
    /\ live(1)
    /\ branch[1].advanced
    /\ squash(0, 1)
    /\ branch' = [branch EXCEPT ![1] = NoBranch]
    /\ ghost' = [ghost EXCEPT ![1] = NoGhost]
    /\ note' = {}
    /\ UNCHANGED <<lastAdv, advLog, nTrain>>

NextIso ==
    \/ \E pc \in Buckets : IsoPredict(pc)
    \/ \E taken \in BOOLEAN : IsoAdvance(taken)
    \/ \E pc \in Buckets, taken \in BOOLEAN : IsoOther(pc, taken)
    \/ IsoRevert

SpecIso == InitIso /\ [][NextIso]_vars

(***************************************************************************)
(* C16, as claimed.  Thread 0 predicts and advances a branch and later     *)
(* squashes it, while thread 1 advances branches in between, also in the   *)
(* same bucket.  After the squash every global history register, every     *)
(* path queue and every local history register holds the value it would   *)
(* hold had the branch of thread 0 never been issued.                      *)
(***************************************************************************)
RollbackExactAcrossThreads ==
    [][IsoRevert =>
          /\ globalHistoryReg'[0] = ghost[1].pre[1]
          /\ pathTable'[0] = ghost[1].pre[2]
          /\ globalHistoryReg'[1] = globalHistoryReg[1]
          /\ pathTable'[1] = pathTable[1]
          /\ branchHistoryTable' = ghost[1].alt]_vars

(***************************************************************************)
(* C17, as claimed.  updateHistories called for an unconditional branch    *)
(* makes a minimal snapshot (the current global history register, the      *)
(* masked local history register of the bucket, a copy of the path queue,  *)
(* the bucket, score 0, no eviction yet) only when the caller supplies no  *)
(* snapshot; a snapshot supplied by a preceding lookup is kept as the      *)
(* branch's snapshot, and no snapshot is left without an owner.            *)
(***************************************************************************)
UncondKeepsSnapshot ==
    [][/\ \A t \in Threads, pc \in Addrs, taken \in BOOLEAN :
             AdvanceUncond(t, pc, taken, 1, FALSE) =>
                 \E h \in Handles :
                     /\ ~live(h)
                     /\ bp_history'[h] =
                           evict_record(BPHistory(globalHistoryReg[t], Unset,
                                                  BitAnd(branchHistoryTable[BitAnd(pc, pcMask)],
                                                         localMask),
                                                  pathTable[t], BitAnd(pc, pcMask), FALSE, 0),
                                        pathTable[t])
                     /\ heap' = heap + 1
       /\ \A h \in Handles, taken \in BOOLEAN :
             Advance(h, TRUE, taken, FALSE, MaxLeaks) =>
                 /\ bp_history'[h] = evict_record(bp_history[h], pathTable[branch[h].tid])
                 /\ heap' = heap
       /\ heap' = Cardinality({h \in Handles : bp_history'[h] # nullptr})]_vars

(***************************************************************************)
(* C18.  Learning step: when update trains for snapshot s with outcome     *)
(* taken, called with the pc of the branch that made s, the score lookup   *)
(* computes from the inputs s recorded (its global and local history, its  *)
(* path, its bucket) changes by exactly history_length + branchAddrBits +  *)
(* 2 upwards if taken, and by as much downwards if not.                    *)
(***************************************************************************)
\* the score of lines 54-79 over weight tables hw and aw, from the inputs
\* that snapshot s recorded
ScoreOf(hw, aw, s) ==
    LET global == s.globalHistoryReg % Pow2(globalHistoryBits)
        combined == global * Pow2(localHistoryBits) + s.local
    IN  hw[s.new_pc][0] + PathSum(hw, s.path, combined, history_length)
            + aw[s.new_pc][0] + PathSum(aw, s.path, s.new_pc, branchAddrBits)

LearningStep ==
    [][\A h \in Handles, taken \in BOOLEAN, squashed \in BOOLEAN :
          (Train(h, taken, squashed, MaxTrainT) /\ update_trains(bp_history[h], squashed)) =>
              ScoreOf(historyWeightTable', addrWeightTable', bp_history[h])
                  - ScoreOf(historyWeightTable, addrWeightTable, bp_history[h])
                = (IF taken THEN 1 ELSE -1) * (history_length + branchAddrBits + 2)]_vars

\* update has just trained a second time, towards not taken, for a snapshot
\* whose path names another bucket than its own and whose score has come
\* down by two steps
LearnedDown ==
    /\ op.name = "update"
    /\ {"trained", "squashed"} \subseteq note
    /\ "taken" \notin note
    /\ nTrain = 2
    /\ \E h \in Handles :
          /\ live(h)
          /\ \E j \in 1 .. Len(bp_history[h].path) :
                bp_history[h].path[j] # bp_history[h].new_pc
          /\ ScoreOf(historyWeightTable, addrWeightTable, bp_history[h])
                = -2 * (history_length + branchAddrBits + 2)

(***************************************************************************)
(* C19.  Ranges: in every reachable state each thread's global history     *)
(* register is below 2^globalHistoryBits, each local history register is   *)
(* below 2^localHistoryBits, and every address in a path queue, and in a   *)
(* live snapshot its path copy, its bucket and the evicted address it      *)
(* recorded, is below 2^branchAddrBits; so every row and column of the     *)
(* weight tables and every position of a queue that lookup and update      *)
(* read exists.                                                            *)
(***************************************************************************)
InRange(x, bits) == x \in 0 .. (2 ^ bits - 1)

RangeInvariant ==
    /\ \A t \in Threads :
          /\ InRange(globalHistoryReg[t], globalHistoryBits)
          /\ \A i \in 1 .. Len(pathTable[t]) : InRange(pathTable[t][i], branchAddrBits)
    /\ \A b \in DOMAIN branchHistoryTable :
          InRange(branchHistoryTable[b], localHistoryBits)
    /\ \A h \in Handles :
          live(h) =>
              /\ \A i \in 1 .. Len(bp_history[h].path) :
                    InRange(bp_history[h].path[i], branchAddrBits)
              /\ InRange(bp_history[h].new_pc, branchAddrBits)
              /\ bp_history[h].branchAddrReplaced =>
                    InRange(bp_history[h].branchAddr, branchAddrBits)
              /\ \A j \in 1 .. Max(history_length, branchAddrBits) :
                    /\ j \in DOMAIN bp_history[h].path
                    /\ bp_history[h].path[j] \in DOMAIN historyWeightTable
                    /\ bp_history[h].path[j] \in DOMAIN addrWeightTable
    /\ \A t \in Threads, j \in 1 .. Max(history_length, branchAddrBits) :
          /\ j \in DOMAIN pathTable[t]
          /\ pathTable[t][j] \in DOMAIN historyWeightTable
          /\ pathTable[t][j] \in DOMAIN addrWeightTable
    /\ \A k \in DOMAIN historyWeightTable : DOMAIN historyWeightTable[k] = 0 .. history_length
    /\ \A k \in DOMAIN addrWeightTable : DOMAIN addrWeightTable[k] = 0 .. branchAddrBits

\* updateHistories has just shifted an outcome into a global history
\* register that was full of ones, for a branch whose address lies above
\* the buckets
ShiftedWhenFull ==
    /\ op.name = "updateHistories"
    /\ \E h \in Handles :
          /\ live(h)
          /\ branch[h].advanced
          /\ branch[h].pc >= 2 ^ branchAddrBits
          /\ bp_history[h].branchAddrReplaced
          /\ bp_history[h].globalHistoryReg = globalHistoryMask
          /\ globalHistoryReg[branch[h].tid] = globalHistoryMask
          /\ globalHistoryMask # 0

====
